---- MODULE Spec2Model ----
(***************************************************************************)
(* The workflow engine of omnicore_workflows.py as a state machine.        *)
(*                                                                         *)
(* The engine runs on one asyncio event loop.  A coroutine (start_workflow *)
(* or complete_task) runs without interruption until it awaits something   *)
(* that really suspends it: the asyncio.sleep of a service call            *)
(* (ServiceTaskNode._call_service) or of a timer (TimerNode.execute).      *)
(* One action of the model is one such uninterrupted stretch of one        *)
(* coroutine; other coroutines, and any observer calling                   *)
(* get_execution_status, see only the states between the stretches.        *)
(***************************************************************************)
EXTENDS Integers, Sequences, FiniteSets, TLC

\* ------------------------------------------------------------- bounds

\* How many executions start_workflow may create in one behaviour.
MaxExecutions == 1

\* How many nodes and how many edges a definition under validation may have.
MaxNodes == 3
MaxEdges == 3

\* ------------------------------------------------- enums (NodeType, ExecutionStatus)

START == "start"
END == "end"
DECISION == "decision"
PARALLEL_GATEWAY == "parallel_gateway"
TIMER == "timer"
HUMAN_TASK == "human_task"
SERVICE_TASK == "service_task"

PENDING == "pending"
RUNNING == "running"
COMPLETED == "completed"
FAILED == "failed"
CANCELLED == "cancelled"
WAITING == "waiting"

\* Optional values (None or a value) are sequences of length 0 or 1.
None == <<>>
Some(x) == <<x>>

\* A Python dict is a function whose DOMAIN is the set of its keys.
EmptyDict == [k \in {} |-> 0]
DictSet(d, k, v) == [x \in DOMAIN d \cup {k} |-> IF x = k THEN v ELSE d[x]]
DictDel(d, k) == [x \in DOMAIN d \ {k} |-> d[x]]

\* ------------------------------------------------------ workflow nodes

\* WorkflowNode.add_outgoing: one connection {"node_id", "condition"}.
\* A condition "{lhs} op rhs" is kept as its three parts; None is <<>>.
Conn(node_id) == [node_id |-> node_id, condition |-> None]
CondConn(node_id, lhs, op, rhs) ==
    [node_id |-> node_id, condition |-> Some([lhs |-> lhs, op |-> op, rhs |-> rhs])]

\* WorkflowNode.__init__ and the subclasses' own attributes.
Node(node_type, outgoing) ==
    [node_type |-> node_type, outgoing |-> outgoing, gateway_type |-> "",
     assignee |-> "", input_mapping |-> <<>>, output_mapping |-> <<>>]
StartNode(outgoing) == Node(START, outgoing)
EndNode == Node(END, <<>>)
DecisionNode(outgoing) == Node(DECISION, outgoing)
TimerNode(outgoing) == Node(TIMER, outgoing)
HumanTaskNode(assignee, outgoing) ==
    [Node(HUMAN_TASK, outgoing) EXCEPT !.assignee = assignee]
ParallelGatewayNode(gateway_type, outgoing) ==
    [Node(PARALLEL_GATEWAY, outgoing) EXCEPT !.gateway_type = gateway_type]
\* input_mapping and output_mapping are sequences of <<var_name, mapping>> pairs.
ServiceTaskNode(input_mapping, output_mapping, outgoing) ==
    [Node(SERVICE_TASK, outgoing) EXCEPT !.input_mapping = input_mapping,
                                         !.output_mapping = output_mapping]

\* WorkflowNode.outgoing as the list of target ids ([conn["node_id"] for conn in self.outgoing]).
NextNodes(node) == [i \in 1..Len(node.outgoing) |-> node.outgoing[i].node_id]

\* ------------------------------------------------ workflow definitions
\* The definitions registered with the engine (WorkflowDefinition.nodes of each).

\* Scenario A: start -> end.
WfStartEnd ==
    [start |-> StartNode(<<Conn("end")>>), end |-> EndNode]

\* The test suite's simple_workflow: start -> process -> end.
WfChain ==
    [start |-> StartNode(<<Conn("process")>>),
     process |-> ServiceTaskNode(<<<<"input", "score">>>>, <<<<"result", "process_result">>>>,
                                 <<Conn("end")>>),
     end |-> EndNode]

\* A chain of two service tasks: start -> check -> process -> end.
WfChain2 ==
    [start |-> StartNode(<<Conn("check")>>),
     check |-> ServiceTaskNode(<<>>, <<>>, <<Conn("process")>>),
     process |-> ServiceTaskNode(<<>>, <<>>, <<Conn("end")>>),
     end |-> EndNode]

\* Scenario B: start -> decision -> {manual_review if score < 700, end otherwise}.
WfReview ==
    [start |-> StartNode(<<Conn("credit_decision")>>),
     credit_decision |-> DecisionNode(<<CondConn("manual_review", "score", "<", 700),
                                        Conn("end")>>),
     manual_review |-> HumanTaskNode("manager", <<Conn("end")>>),
     end |-> EndNode]

\* A later version of the same workflow: the manager's review is followed by an audit.
WfReviewV2 ==
    [start |-> StartNode(<<Conn("credit_decision")>>),
     credit_decision |-> DecisionNode(<<CondConn("manual_review", "score", "<", 700),
                                        Conn("end")>>),
     manual_review |-> HumanTaskNode("manager", <<Conn("audit")>>),
     audit |-> HumanTaskNode("auditor", <<Conn("end")>>),
     end |-> EndNode]

\* The module's own example (exemplo_workflow_system) without the builder's
\* unconditioned edge: both edges of the decision carry a condition, none is default.
WfNoDefault ==
    [start |-> StartNode(<<Conn("credit_decision")>>),
     credit_decision |-> DecisionNode(<<CondConn("manual_review", "score", "<", 700),
                                        CondConn("end", "score", ">", 700)>>),
     manual_review |-> HumanTaskNode("manager", <<Conn("end")>>),
     end |-> EndNode]

\* Scenario C: start -> fork -> (A, B service tasks) -> join -> end.
WfForkJoin ==
    [start |-> StartNode(<<Conn("fork")>>),
     fork |-> ParallelGatewayNode("fork", <<Conn("A"), Conn("B")>>),
     A |-> ServiceTaskNode(<<>>, <<>>, <<Conn("join")>>),
     B |-> ServiceTaskNode(<<>>, <<>>, <<Conn("join")>>),
     join |-> ParallelGatewayNode("join", <<Conn("end")>>),
     end |-> EndNode]

\* A fork whose first branch parks at a human task and whose second is a service task.
WfForkHuman ==
    [start |-> StartNode(<<Conn("fork")>>),
     fork |-> ParallelGatewayNode("fork", <<Conn("manual_review"), Conn("B")>>),
     manual_review |-> HumanTaskNode("manager", <<Conn("join")>>),
     B |-> ServiceTaskNode(<<>>, <<>>, <<Conn("join")>>),
     join |-> ParallelGatewayNode("join", <<Conn("end")>>),
     end |-> EndNode]

\* A fork whose branches end apart: the human task is followed by an audit,
\* the service task by the END node.
WfForkRace ==
    [start |-> StartNode(<<Conn("fork")>>),
     fork |-> ParallelGatewayNode("fork", <<Conn("manual_review"), Conn("B")>>),
     manual_review |-> HumanTaskNode("manager", <<Conn("audit")>>),
     B |-> ServiceTaskNode(<<>>, <<>>, <<Conn("end")>>),
     audit |-> HumanTaskNode("auditor", <<Conn("end")>>),
     end |-> EndNode]

\* A fork whose second branch decides on a variable that the answer to the
\* human task of the first branch writes: after B, audit if score < 700, end if
\* score < 750.
WfForkDecide ==
    [start |-> StartNode(<<Conn("fork")>>),
     fork |-> ParallelGatewayNode("fork", <<Conn("manual_review"), Conn("B")>>),
     manual_review |-> HumanTaskNode("manager", <<Conn("end")>>),
     B |-> ServiceTaskNode(<<>>, <<>>, <<Conn("credit_decision")>>),
     credit_decision |-> DecisionNode(<<CondConn("audit", "score", "<", 700),
                                        CondConn("end", "score", "<", 750)>>),
     audit |-> HumanTaskNode("auditor", <<Conn("end")>>),
     end |-> EndNode]

\* A fork whose first branch is a timer and whose second is a service task.
WfForkTimer ==
    [start |-> StartNode(<<Conn("fork")>>),
     fork |-> ParallelGatewayNode("fork", <<Conn("wait"), Conn("B")>>),
     wait |-> TimerNode(<<Conn("join")>>),
     B |-> ServiceTaskNode(<<>>, <<>>, <<Conn("join")>>),
     join |-> ParallelGatewayNode("join", <<Conn("end")>>),
     end |-> EndNode]

\* A decision with a default edge declared between two conditioned edges that
\* can both be true: manual_review if score < 700, audit if score < 750,
\* otherwise end.
WfTiers ==
    [start |-> StartNode(<<Conn("credit_decision")>>),
     credit_decision |-> DecisionNode(<<CondConn("manual_review", "score", "<", 700),
                                        Conn("end"),
                                        CondConn("audit", "score", "<", 750)>>),
     manual_review |-> HumanTaskNode("manager", <<Conn("end")>>),
     audit |-> HumanTaskNode("auditor", <<Conn("end")>>),
     end |-> EndNode]

\* A START node whose edge, added with add_outgoing, names a node the
\* definition does not have (connect_nodes would not add it), and an END node.
WfDangling ==
    [start |-> StartNode(<<Conn("ghost")>>), end |-> EndNode]

\* A definition without an END node, whose service task has no outgoing edge.
WfNoEnd ==
    [start |-> StartNode(<<Conn("process")>>),
     process |-> ServiceTaskNode(<<>>, <<>>, <<>>)]

\* The WorkflowDefinition objects of the program, by name; the engine's registry
\* and each WorkflowExecution.workflow_def hold a reference to one of them.
Catalog ==
    [start_end |-> WfStartEnd, chain |-> WfChain, review |-> WfReview,
     no_default |-> WfNoDefault, fork_join |-> WfForkJoin,
     fork_human |-> WfForkHuman, fork_timer |-> WfForkTimer, tiers |-> WfTiers,
     chain2 |-> WfChain2, dangling |-> WfDangling, no_end |-> WfNoEnd,
     review_v2 |-> WfReviewV2, fork_race |-> WfForkRace, fork_decide |-> WfForkDecide]

\* WorkflowDefinition.workflow_id of each object: review_v2 is a second
\* definition of the workflow "review", every other object has its own id.
WorkflowId(workflow_def) == IF workflow_def = "review_v2" THEN "review" ELSE workflow_def

\* ------------------------------------------------------------- inputs

\* The initial variables start_workflow is called with.
InitialVariables ==
    { EmptyDict, [score |-> 650], [score |-> 700], [score |-> 720] }

\* The answers complete_task is called with.
TaskData ==
    { [approved |-> TRUE], [approved |-> FALSE, score |-> 720] }

\* ------------------------------------------------------ node execution
\* What a node's execute() returns: {"status", "next_nodes", "error", "task"}.
Result(status, next_nodes, error, task) ==
    [status |-> status, next_nodes |-> next_nodes, error |-> error, task |-> task]

\* Python's comparison operators, as eval applies them to two numbers.
Compare(op, a, b) ==
    CASE op = "<" -> a < b
      [] op = "<=" -> a <= b
      [] op = ">" -> a > b
      [] op = ">=" -> a >= b
      [] op = "==" -> a = b
      [] op = "!=" -> a # b

\* DecisionNode._evaluate_condition: every "{name}" of the condition whose name
\* is a key of the variables is replaced by the value's text and the text is
\* eval'ed.  A reference left unreplaced makes eval raise (NameError), and the
\* bare except turns any exception into False.  The conditions of the
\* definitions above compare a number-valued variable with a number.
EvaluateCondition(condition, variables) ==
    IF condition.lhs \in DOMAIN variables
    THEN Compare(condition.op, variables[condition.lhs], condition.rhs)
    ELSE FALSE

\* DecisionNode.execute: the first connection, in declaration order, that has a
\* condition evaluating true; otherwise every connection without a condition.
\* No exception reaches its own except clause (_evaluate_condition raises none).
Matching(node, variables) ==
    { i \in 1..Len(node.outgoing) :
        /\ node.outgoing[i].condition # None
        /\ EvaluateCondition(node.outgoing[i].condition[1], variables) }

DefaultRoute(node) ==
    LET unconditioned == SelectSeq(node.outgoing, LAMBDA c : c.condition = None)
    IN [i \in 1..Len(unconditioned) |-> unconditioned[i].node_id]

Min(S) == CHOOSE i \in S : \A j \in S : i <= j

\* A loop that does not return at the first true condition ends with the last.
DecisionExecuteLastMatch(node, variables) ==
    LET m == Matching(node, variables)
    IN IF m # {}
       THEN Result("completed",
                   <<node.outgoing[CHOOSE i \in m : \A j \in m : j <= i].node_id>>,
                   None, None)
       ELSE Result("completed", DefaultRoute(node), None, None)

\* A decision whose later conditions read values from before `score` was written.
DecisionExecuteStaleRead(node, variables) ==
    LET stale == DictDel(variables, "score")
        m == { i \in 1..Len(node.outgoing) :
                 /\ node.outgoing[i].condition # None
                 /\ EvaluateCondition(node.outgoing[i].condition[1],
                                      IF i = 1 THEN variables ELSE stale) }
    IN IF m # {}
       THEN Result("completed", <<node.outgoing[Min(m)].node_id>>, None, None)
       ELSE Result("completed", DefaultRoute(node), None, None)

DecisionExecute(node, variables) ==
    LET m == Matching(node, variables)
    IN IF m # {}
       THEN Result("completed", <<node.outgoing[Min(m)].node_id>>, None, None)
       ELSE Result("completed", DefaultRoute(node), None, None)

\* HumanTaskNode.execute: the task descriptor and status "waiting".  task_id is
\* a fresh uuid; the model uses the number of the node visit, unique in the run.
HumanTaskExecute(node_id, node, context, visit) ==
    Result("waiting", <<>>, None,
           Some([task_id |-> visit, workflow_id |-> context.workflow_id,
                 execution_id |-> context.execution_id, node_id |-> node_id,
                 assignee |-> node.assignee]))

\* A node that names each of its outgoing connections twice.
PassThroughTwice(node) ==
    Result("completed", NextNodes(node) \o NextNodes(node), None, None)

\* StartNode.execute, ParallelGatewayNode.execute (fork and join alike) and the
\* end of TimerNode.execute: "completed" with every outgoing connection.
PassThroughExecute(node) == Result("completed", NextNodes(node), None, None)

\* EndNode.execute: "completed", and no "next_nodes" key.
EndExecute == Result("completed", <<>>, None, None)

\* ServiceTaskNode.execute up to the await: input_data from input_mapping.
RECURSIVE ServiceInput(_, _, _)
ServiceInput(input_mapping, variables, input_data) ==
    IF input_mapping = <<>> THEN input_data
    ELSE LET var_name == Head(input_mapping)[1]
             mapping == Head(input_mapping)[2]
         IN ServiceInput(Tail(input_mapping), variables,
                         IF mapping \in DOMAIN variables
                         THEN DictSet(input_data, var_name, variables[mapping])
                         ELSE input_data)

\* _call_service's return value.
ServiceResult(input_data) == [result |-> "executed", data |-> input_data]

\* ServiceTaskNode.execute after the await: the output mapping's writes.
RECURSIVE ServiceOutput(_, _, _)
ServiceOutput(output_mapping, result, variables) ==
    IF output_mapping = <<>> THEN variables
    ELSE LET var_name == Head(output_mapping)[1]
             mapping == Head(output_mapping)[2]
         IN ServiceOutput(Tail(output_mapping), result,
                          IF var_name \in DOMAIN result
                          THEN DictSet(variables, mapping, result[var_name])
                          ELSE variables)

\* HumanTaskNode.complete_task: every field of task_data is written to the variables.
CompleteTaskVariablesKeepExisting(task_data, variables) ==
    [k \in DOMAIN variables \cup DOMAIN task_data |->
        IF k \in DOMAIN variables THEN variables[k] ELSE task_data[k]]

CompleteTaskVariables(task_data, variables) ==
    [k \in DOMAIN variables \cup DOMAIN task_data |->
        IF k \in DOMAIN task_data THEN task_data[k] ELSE variables[k]]

\* ------------------------------------------------------------ validation

\* The nodes of a definition in the order validate() visits them.  The code
\* visits them in insertion order; the model fixes one order per node set.
RECURSIVE NodeOrder(_)
NodeOrder(ids) ==
    IF ids = {} THEN <<>>
    ELSE LET n == CHOOSE n \in ids : TRUE
         IN <<n>> \o NodeOrder(ids \ {n})

\* node.incoming is not empty.  connect_nodes adds the edge to the source's
\* outgoing and to the target's incoming at once, so a node has an incoming
\* connection exactly when a node of the definition has an edge to it.
HasIncoming(workflow_def, node_id) ==
    \E p \in DOMAIN workflow_def :
        \E i \in 1..Len(workflow_def[p].outgoing) :
            workflow_def[p].outgoing[i].node_id = node_id

\* One message of validate(): its kind and, for a connectivity message, the node.
Diagnostic(kind, node) == [kind |-> kind, node |-> node]

\* The connectivity loop of validate(): the nodes that are neither START nor
\* END are checked for an incoming and for an outgoing connection.
RECURSIVE Connectivity(_, _)
Connectivity(workflow_def, order) ==
    IF order = <<>> THEN <<>>
    ELSE LET node == workflow_def[Head(order)]
             checked == node.node_type \notin {START, END}
             no_incoming ==
                 IF checked /\ ~HasIncoming(workflow_def, Head(order))
                 THEN <<Diagnostic("no_incoming", Some(Head(order)))>> ELSE <<>>
             no_outgoing ==
                 IF checked /\ node.outgoing = <<>> /\ node.node_type # END
                 THEN <<Diagnostic("no_outgoing", Some(Head(order)))>> ELSE <<>>
         IN no_incoming \o no_outgoing \o Connectivity(workflow_def, Tail(order))

\* WorkflowDefinition.validate: the list of messages, empty for a definition
\* the engine accepts.
Validate(workflow_def) ==
    LET start_nodes == { n \in DOMAIN workflow_def : workflow_def[n].node_type = START }
        end_nodes == { n \in DOMAIN workflow_def : workflow_def[n].node_type = END }
        start_errors ==
            IF start_nodes = {} THEN <<Diagnostic("no_start", None)>>
            ELSE IF Cardinality(start_nodes) > 1 THEN <<Diagnostic("many_starts", None)>>
            ELSE <<>>
        end_errors == IF end_nodes = {} THEN <<Diagnostic("no_end", None)>> ELSE <<>>
    IN start_errors \o end_errors
          \o Connectivity(workflow_def, NodeOrder(DOMAIN workflow_def))

\* --------------------------------------------------------------- state

VARIABLES
    workflow_definitions,  \* WorkflowEngine.workflow_definitions: workflow_id -> definition
    executions,            \* WorkflowEngine.executions: execution_id -> WorkflowExecution
    coroutines,            \* the calls suspended at an await, each with the rest of its work
    returns,               \* the calls that have returned
    raised,                \* the exception the latest call raised to its caller, if it did
    candidate,             \* a WorkflowDefinition under construction, not yet registered
    errors,                \* what validate() returned for the candidate, once called
    builder,               \* the WorkflowBuilder that constructs the candidate
    reply                  \* what the latest call returned to its caller, if it was a query

vars == <<workflow_definitions, executions, coroutines, returns, raised, candidate, errors,
          builder, reply>>

\* WorkflowBuilder.__init__: no node added yet.  `built` is what build() has
\* returned, `calls` the calls made on the builder so far.
NewBuilder == [last_node_id |-> None, built |-> None, calls |-> <<>>]

\* An execution that looks its definition up in the registry whenever it uses it.
NodesOfRegistered(e) == Catalog[workflow_definitions[e.workflow_id]]

\* The nodes of the definition object an execution is bound to.
Nodes(e) == Catalog[e.workflow_def]

\* WorkflowExecution.__init__ with the ExecutionContext start_workflow builds.
\* trace is the engine's log of node executions ("Executando nó ..."), in order;
\* events is what has been delivered to the execution, in order: the outcomes
\* of its service calls, the ends of its timers, the answers to its human tasks.
NewExecution(workflow_id, execution_id, workflow_def, variables) ==
    [workflow_id |-> workflow_id, execution_id |-> execution_id,
     workflow_def |-> workflow_def, variables |-> variables,
     node_executions |-> EmptyDict, waiting_tasks |-> EmptyDict,
     completed_at |-> None, status |-> PENDING, trace |-> <<>>, events |-> <<>>]

\* The execution is resumed with an outcome, a timer's end or an answer.
Delivered(e, kind, node_id, data) ==
    [e EXCEPT !.events = Append(@, [kind |-> kind, node_id |-> node_id, data |-> data])]

\* _execute_node before node.execute: a RUNNING NodeExecution replaces whatever
\* record the node had.  visit identifies the NodeExecution object.
BeginNode(e, node_id) ==
    [e EXCEPT !.node_executions =
                  DictSet(@, node_id, [node_id |-> node_id, status |-> RUNNING,
                                       error_message |-> None,
                                       visit |-> Len(e.trace) + 1]),
              !.trace = Append(@, node_id)]

\* An _execute_node that never writes the outcome into the node's record.
FinishNodeKeepsRunning(e, node_id, visit, result) ==
    [e EXCEPT !.waiting_tasks = IF result.status = "waiting" /\ result.task # None
                                THEN DictSet(@, node_id, result.task[1])
                                ELSE @]

\* _execute_node after node.execute: the status of the NodeExecution object the
\* call created (it is still the node's record unless another coroutine executed
\* the node during an await), and the task of a waiting node.
FinishNode(e, node_id, visit, result) ==
    LET status == IF result.status = "failed" THEN FAILED
                  ELSE IF result.status = "waiting" THEN WAITING
                  ELSE COMPLETED
        records == IF e.node_executions[node_id].visit = visit
                   THEN [e.node_executions EXCEPT
                            ![node_id].status = status,
                            ![node_id].error_message = result.error]
                   ELSE e.node_executions
        tasks == IF result.status = "waiting" /\ result.task # None
                 THEN DictSet(e.waiting_tasks, node_id, result.task[1])
                 ELSE e.waiting_tasks
    IN [e EXCEPT !.node_executions = records, !.waiting_tasks = tasks]

\* node.execute of the nodes that do not await.
ExecuteSync(e, node_id, visit) ==
    LET node == Nodes(e)[node_id]
    IN CASE node.node_type = DECISION -> DecisionExecute(node, e.variables)
         [] node.node_type = HUMAN_TASK -> HumanTaskExecute(node_id, node, e, visit)
         [] node.node_type = END -> EndExecute
         [] OTHER -> PassThroughExecute(node)

Awaits(node) == node.node_type \in {SERVICE_TASK, TIMER}

\* _continue_execution after _execute_node returned `result`: the execution's
\* status and the nodes still to be continued, first this node's successors and
\* then `rest`, what the callers' loops have left.
AfterNodeWaitStops(e, node_type, result, rest) ==
    IF node_type = END
    THEN [exec |-> [e EXCEPT !.status = COMPLETED, !.completed_at = Some("now")],
          todo |-> rest]
    ELSE IF result.status = "failed"
    THEN [exec |-> [e EXCEPT !.status = FAILED], todo |-> rest]
    ELSE IF result.status = "waiting"
    THEN [exec |-> e, todo |-> <<>>]
    ELSE [exec |-> e, todo |-> result.next_nodes \o rest]

\* A walk that reaches END without marking the execution COMPLETED.
AfterNodeEndKeepsStatus(e, node_type, result, rest) ==
    IF node_type = END
    THEN [exec |-> e, todo |-> rest]
    ELSE IF result.status = "failed"
    THEN [exec |-> [e EXCEPT !.status = FAILED], todo |-> rest]
    ELSE [exec |-> e, todo |-> IF result.status = "waiting" THEN rest
                               ELSE result.next_nodes \o rest]

AfterNode(e, node_type, result, rest) ==
    IF node_type = END
    THEN [exec |-> [e EXCEPT !.status = COMPLETED, !.completed_at = Some("now")],
          todo |-> rest]
    ELSE IF result.status = "failed"
    THEN [exec |-> [e EXCEPT !.status = FAILED], todo |-> rest]
    ELSE IF result.status = "waiting"
    THEN [exec |-> e, todo |-> rest]
    ELSE [exec |-> e, todo |-> result.next_nodes \o rest]

\* _continue_execution for each node of todo in turn, depth first as the
\* recursion goes, until the call returns (todo is empty) or awaits.  The state
\* after a node is bound through a one-element set, here and in the actions,
\* so that it is computed once.
RECURSIVE Continue(_, _)
Continue(e, todo) ==
    IF todo = <<>> THEN [exec |-> e, awaiting |-> None, todo |-> <<>>]
    ELSE LET node_id == Head(todo)
             rest == Tail(todo)
         IN IF node_id \notin DOMAIN Nodes(e) THEN Continue(e, rest)
            ELSE LET node == Nodes(e)[node_id]
                     visit == Len(e.trace) + 1
                     begun == BeginNode(e, node_id)
                 IN IF Awaits(node)
                    THEN [exec |-> begun,
                          awaiting |-> Some([node_id |-> node_id, visit |-> visit,
                                             input_data |-> ServiceInput(node.input_mapping,
                                                                         e.variables, EmptyDict)]),
                          todo |-> rest]
                    ELSE LET result == ExecuteSync(begun, node_id, visit)
                             after == AfterNode(FinishNode(begun, node_id, visit, result),
                                                node.node_type, result, rest)
                         IN CHOOSE run \in { Continue(a.exec, a.todo) : a \in {after} } : TRUE

\* An engine whose executions share one context: what a run writes into its
\* variables shows in every execution.
SettleSharedContext(call, run, others) ==
    /\ executions' = [x \in DOMAIN executions \cup {call.execution_id} |->
                         IF x = call.execution_id THEN run.exec
                         ELSE [executions[x] EXCEPT !.variables = run.exec.variables]]
    /\ IF run.awaiting = None
       THEN /\ returns' = returns \cup {call}
            /\ coroutines' = others
       ELSE /\ coroutines' = Append(others, [call |-> call, awaiting |-> run.awaiting[1],
                                             todo |-> run.todo])
            /\ returns' = returns
    /\ raised' = None
    /\ reply' = None
    /\ UNCHANGED <<workflow_definitions, candidate, errors, builder>>

\* The state after a call ran to `run`: suspended at an await (one more
\* coroutine beside `others`), or returned.
Settle(call, run, others) ==
    /\ executions' = DictSet(executions, call.execution_id, run.exec)
    /\ IF run.awaiting = None
       THEN /\ returns' = returns \cup {call}
            /\ coroutines' = others
       ELSE /\ coroutines' = Append(others, [call |-> call, awaiting |-> run.awaiting[1],
                                             todo |-> run.todo])
            /\ returns' = returns
    /\ raised' = None
    /\ reply' = None
    /\ UNCHANGED <<workflow_definitions, candidate, errors, builder>>

\* A call: the operation, its arguments (data: the initial variables or the
\* task's answers), and `mark`, the length of the execution's trace when the
\* call was made.
Call(op, execution_id, node_id, data, mark) ==
    [op |-> op, execution_id |-> execution_id, node_id |-> node_id, data |-> data,
     mark |-> mark]

\* A ValueError and the parts of its message: which operation raised it, what
\* the message says, and the execution, node or workflow id or the validation
\* messages it quotes (0, "", <<>> for the parts a message does not have).
Error(op, message, execution_id, node_id, workflow_id, diagnostics) ==
    [type |-> "ValueError", op |-> op, message |-> message,
     execution_id |-> execution_id, node_id |-> node_id, workflow_id |-> workflow_id,
     diagnostics |-> diagnostics]

\* The call raises to its caller before it has written anything.
Raise(error) ==
    /\ raised' = Some(error)
    /\ reply' = None
    /\ UNCHANGED <<workflow_definitions, executions, coroutines, returns, candidate, errors, builder>>

Remove(seq, i) == [j \in 1..(Len(seq) - 1) |-> IF j < i THEN seq[j] ELSE seq[j + 1]]

\* WorkflowExecution.start: status RUNNING, the START node, then its successors.
StartNodeOf(workflow_def) ==
    CHOOSE n \in DOMAIN workflow_def : workflow_def[n].node_type = START

StartRun(e) ==
    LET node_id == StartNodeOf(Nodes(e))
        running == [e EXCEPT !.status = RUNNING]
        begun == BeginNode(running, node_id)
        result == PassThroughExecute(Nodes(e)[node_id])
    IN Continue(FinishNode(begun, node_id, 1, result), result.next_nodes)

\* An engine that made the execution's entry before looking the workflow up.
UnknownWorkflowEntryAdded(workflow_id, variables) ==
    /\ Cardinality(DOMAIN executions) < MaxExecutions
    /\ executions' = DictSet(executions, Cardinality(DOMAIN executions) + 1,
                             NewExecution(workflow_id, Cardinality(DOMAIN executions) + 1,
                                          "start_end", variables))
    /\ raised' = Some(Error("start_workflow", "workflow not found", 0, "", workflow_id, <<>>))
    /\ reply' = None
    /\ UNCHANGED <<workflow_definitions, coroutines, returns, candidate, errors, builder>>

\* WorkflowEngine.start_workflow with a workflow id that is not registered:
\* ValueError("Workflow ... não encontrado"), before anything is created.
UnknownWorkflow(workflow_id, variables) ==
    Raise(Error("start_workflow", "workflow not found", 0, "", workflow_id, <<>>))

\* WorkflowEngine.start_workflow.  execution_id is a fresh uuid; the model
\* numbers the executions.
StartCall(workflow_id, variables) ==
    IF workflow_id \notin DOMAIN workflow_definitions
    THEN UnknownWorkflow(workflow_id, variables)
    ELSE LET execution_id == Cardinality(DOMAIN executions) + 1
             e == NewExecution(workflow_id, execution_id,
                               workflow_definitions[workflow_id], variables)
         IN Settle(Call("start_workflow", execution_id, "", variables, 0),
                   StartRun(e), coroutines)

\* start_workflow in an engine that creates at most MaxExecutions executions.
StartWorkflow(workflow_id, variables) ==
    /\ workflow_id \in DOMAIN workflow_definitions =>
          Cardinality(DOMAIN executions) < MaxExecutions
    /\ StartCall(workflow_id, variables)

\* A service task that takes the failure of its call for a result.
ServiceRunSwallowsFailure(e, c, ok) ==
    LET node_id == c.awaiting.node_id
        node == Nodes(e)[node_id]
        written == ServiceOutput(node.output_mapping, ServiceResult(c.awaiting.input_data),
                                 e.variables)
        result == Result("completed", NextNodes(node), None, None)
        after == AfterNode(FinishNode([e EXCEPT !.variables = written],
                                      node_id, c.awaiting.visit, result),
                           node.node_type, result, c.todo)
    IN CHOOSE run \in { Continue(a.exec, a.todo) : a \in {after} } : TRUE

\* ServiceTaskNode.execute from the return of _call_service on, then
\* _execute_node and _continue_execution.  `ok` is whether the service call
\* returned or raised.
ServiceRun(e, c, ok) ==
    LET node_id == c.awaiting.node_id
        node == Nodes(e)[node_id]
        written == IF ok THEN ServiceOutput(node.output_mapping,
                                            ServiceResult(c.awaiting.input_data),
                                            e.variables)
                   ELSE e.variables
        result == IF ok THEN Result("completed", NextNodes(node), None, None)
                  ELSE Result("failed", <<>>, Some("service error"), None)
        after == AfterNode(FinishNode([e EXCEPT !.variables = written],
                                      node_id, c.awaiting.visit, result),
                           node.node_type, result, c.todo)
    IN CHOOSE run \in { Continue(a.exec, a.todo) : a \in {after} } : TRUE

ServiceReturns(i) ==
    /\ i \in 1..Len(coroutines)
    /\ LET c == coroutines[i]
           e == executions[c.call.execution_id]
       IN /\ Nodes(e)[c.awaiting.node_id].node_type = SERVICE_TASK
          /\ \E run \in {ServiceRun(Delivered(e, "response", c.awaiting.node_id, TRUE), c, TRUE)} :
                Settle(c.call, run, Remove(coroutines, i))

ServiceFails(i) ==
    /\ i \in 1..Len(coroutines)
    /\ LET c == coroutines[i]
           e == executions[c.call.execution_id]
       IN /\ Nodes(e)[c.awaiting.node_id].node_type = SERVICE_TASK
          /\ \E run \in {ServiceRun(Delivered(e, "response", c.awaiting.node_id, FALSE), c, FALSE)} :
                Settle(c.call, run, Remove(coroutines, i))

\* A timer that makes a task at the end of its sleep and waits for its answer.
TimerRunParks(e, c) ==
    LET node_id == c.awaiting.node_id
        node == Nodes(e)[node_id]
        result == HumanTaskExecute(node_id, node, e, c.awaiting.visit)
        after == AfterNode(FinishNode(e, node_id, c.awaiting.visit, result),
                           node.node_type, result, c.todo)
    IN CHOOSE run \in { Continue(a.exec, a.todo) : a \in {after} } : TRUE

\* TimerNode.execute from the end of its sleep on.
TimerRun(e, c) ==
    LET node_id == c.awaiting.node_id
        node == Nodes(e)[node_id]
        result == PassThroughExecute(node)
        after == AfterNode(FinishNode(e, node_id, c.awaiting.visit, result),
                           node.node_type, result, c.todo)
    IN CHOOSE run \in { Continue(a.exec, a.todo) : a \in {after} } : TRUE

TimerFires(i) ==
    /\ i \in 1..Len(coroutines)
    /\ LET c == coroutines[i]
           e == executions[c.call.execution_id]
       IN /\ Nodes(e)[c.awaiting.node_id].node_type = TIMER
          /\ \E run \in {TimerRun(Delivered(e, "timer", c.awaiting.node_id, TRUE), c)} :
                Settle(c.call, run, Remove(coroutines, i))

\* A completion that also writes the task's own identifiers, which differ from
\* run to run, into the variables.
CompleteRunKeepsTaskIds(e, node_id, task_data) ==
    LET node == Nodes(e)[node_id]
        done == [e EXCEPT !.variables = DictSet(CompleteTaskVariables(task_data, @),
                                                "execution_id", e.execution_id),
                          !.node_executions[node_id].status = COMPLETED,
                          !.waiting_tasks = DictDel(@, node_id)]
    IN Continue(done, NextNodes(node))

\* A complete_human_task that removes the task and leaves the node's record as
\* it was.
CompleteRunLeavesRecord(e, node_id, task_data) ==
    LET node == Nodes(e)[node_id]
        done == [e EXCEPT !.variables = CompleteTaskVariables(task_data, @),
                          !.waiting_tasks = DictDel(@, node_id)]
    IN Continue(done, NextNodes(node))

\* WorkflowExecution.complete_human_task on a pending task: the answers are
\* written, the node's record is COMPLETED, the task leaves waiting_tasks and
\* the node's successors are continued.
CompleteRun(e, node_id, task_data) ==
    LET node == Nodes(e)[node_id]
        done == [e EXCEPT !.variables = CompleteTaskVariables(task_data, @),
                          !.node_executions[node_id].status = COMPLETED,
                          !.waiting_tasks = DictDel(@, node_id)]
    IN Continue(done, NextNodes(node))

\* A lookup that makes the entry it does not find (setdefault) and then raises.
UnknownExecutionEntryAdded(op, execution_id) ==
    /\ executions' = DictSet(executions, execution_id,
                             NewExecution("start_end", execution_id, "start_end", EmptyDict))
    /\ raised' = Some(Error(op, "execution not found", execution_id, "", "", <<>>))
    /\ reply' = None
    /\ UNCHANGED <<workflow_definitions, coroutines, returns, candidate, errors, builder>>

\* complete_task and get_execution_status with an execution id that is not a
\* key of the engine's executions: ValueError("Execução ... não encontrada").
UnknownExecution(op, execution_id) ==
    Raise(Error(op, "execution not found", execution_id, "", "", <<>>))

\* A check that looks for the node's record where the code looks for the task.
TaskRecorded(e, node_id) == node_id \in DOMAIN e.node_executions

\* complete_human_task's first check: the node has a pending task.
TaskPending(e, node_id) == node_id \in DOMAIN e.waiting_tasks

\* WorkflowEngine.complete_task, and WorkflowExecution.complete_human_task up
\* to its first await that suspends.  The two checks and the removal of the
\* task run without an await that yields in between.
CompleteTask(execution_id, node_id, task_data) ==
    IF execution_id \notin DOMAIN executions
    THEN UnknownExecution("complete_task", execution_id)
    ELSE LET e == executions[execution_id]
         IN IF ~TaskPending(e, node_id)
            THEN Raise(Error("complete_task", "task not found or already completed",
                             0, node_id, "", <<>>))
            ELSE IF Nodes(e)[node_id].node_type # HUMAN_TASK
            THEN Raise(Error("complete_task", "not a human task", 0, node_id, "", <<>>))
            ELSE Settle(Call("complete_task", execution_id, node_id, task_data, Len(e.trace)),
                        CompleteRun(Delivered(e, "answer", node_id, task_data),
                                    node_id, task_data),
                        coroutines)

\* WorkflowExecution.get_status: the dictionary it returns, without the
\* started_at timestamp.  nodes_executed and waiting_tasks are lengths.
GetStatus(e) ==
    [execution_id |-> e.execution_id,
     workflow_id |-> e.workflow_id,
     status |-> e.status,
     completed_at |-> e.completed_at,
     nodes_executed |-> Cardinality(DOMAIN e.node_executions),
     waiting_tasks |-> Cardinality(DOMAIN e.waiting_tasks),
     current_variables |-> e.variables]

\* What a query returned: the operation, its argument and the value.
Reply(op, argument, value) == [op |-> op, argument |-> argument, value |-> value]

\* WorkflowEngine.get_execution_status: the execution's get_status(), or the
\* ValueError of an unknown execution id.
GetExecutionStatus(execution_id) ==
    IF execution_id \notin DOMAIN executions
    THEN UnknownExecution("get_execution_status", execution_id)
    ELSE /\ raised' = None
         /\ reply' = Some(Reply("get_execution_status", execution_id,
                                GetStatus(executions[execution_id])))
         /\ UNCHANGED <<workflow_definitions, executions, coroutines, returns,
                        candidate, errors, builder>>

\* A listing that does not look at the assignee.
WaitingTasksOfAll(user_id) ==
    UNION { { executions[x].waiting_tasks[n] : n \in DOMAIN executions[x].waiting_tasks } :
            x \in DOMAIN executions }

\* The list get_waiting_tasks builds, as the set of its elements: the
\* descriptors in the waiting_tasks of every execution, those of the assignee
\* when a user id is given.
WaitingTasks(user_id) ==
    UNION { { executions[x].waiting_tasks[n] :
                 n \in { m \in DOMAIN executions[x].waiting_tasks :
                            \/ user_id = None
                            \/ executions[x].waiting_tasks[m].assignee = user_id[1] } } :
            x \in DOMAIN executions }

\* WorkflowEngine.get_waiting_tasks.
GetWaitingTasks(user_id) ==
    /\ raised' = None
    /\ reply' = Some(Reply("get_waiting_tasks", user_id, WaitingTasks(user_id)))
    /\ UNCHANGED <<workflow_definitions, executions, coroutines, returns,
                   candidate, errors, builder>>

\* An engine that stored the definition before it validated it.
RegisterWorkflowStoresFirst(workflow_def) ==
    /\ workflow_definitions' = DictSet(workflow_definitions, WorkflowId(workflow_def),
                                      workflow_def)
    /\ raised' = IF Validate(Catalog[workflow_def]) # <<>>
                 THEN Some(Error("register_workflow", "invalid workflow", 0, "",
                                 workflow_def, Validate(Catalog[workflow_def])))
                 ELSE None
    /\ reply' = None
    /\ UNCHANGED <<executions, coroutines, returns, candidate, errors, builder>>

\* WorkflowEngine.register_workflow: a definition with validation messages is
\* refused with ValueError("Workflow inválido: ..."), the messages joined; any
\* other is stored under its workflow_id, in the place of the definition that
\* was registered under that id.
RegisterWorkflow(workflow_def) ==
    IF Validate(Catalog[workflow_def]) # <<>>
    THEN Raise(Error("register_workflow", "invalid workflow", 0, "", workflow_def,
                     Validate(Catalog[workflow_def])))
    ELSE /\ workflow_definitions' = DictSet(workflow_definitions, WorkflowId(workflow_def),
                                      workflow_def)
         /\ raised' = None
         /\ reply' = None
         /\ UNCHANGED <<executions, coroutines, returns, candidate, errors, builder>>

\* ------------------------------------------------------- specification

\* The definitions registered before the behaviour starts; the others are
\* registered, or refused, in its course.
Preregistered == DOMAIN Catalog \ {"no_end", "review_v2", "fork_race", "fork_decide"}

\* The definitions this engine is called with; their workflow ids are the ids
\* start_workflow is called with.
Offered == DOMAIN Catalog \ {"fork_race", "fork_decide"}

\* The definitions register_workflow is called with in the course of the
\* behaviour: those not registered before it starts, and both definitions of
\* "review".
Submitted == (Offered \ Preregistered) \cup {"review"}

Init ==
    /\ workflow_definitions = [w \in Preregistered |-> w]
    /\ executions = EmptyDict
    /\ coroutines = <<>>
    /\ returns = {}
    /\ raised = None
    /\ candidate = EmptyDict
    /\ errors = None
    /\ builder = NewBuilder
    /\ reply = None

\* The initial variables start_workflow is called with: each of
\* InitialVariables for a definition with a node that reads variables (a
\* decision, a service task with an input mapping), none for the others.
StartInputs(workflow_id) ==
    IF \E n \in DOMAIN Catalog[workflow_id] :
          \/ Catalog[workflow_id][n].node_type = DECISION
          \/ Catalog[workflow_id][n].input_mapping # <<>>
    THEN InitialVariables
    ELSE {EmptyDict}

\* The node ids complete_task is called with: the human tasks of the
\* definitions (pending, not yet reached or completed when the call is made)
\* and their START nodes (never a human task).
NodeIds ==
    UNION { { n \in DOMAIN Catalog[w] : Catalog[w][n].node_type \in {HUMAN_TASK, START} } :
            w \in DOMAIN Catalog }

Next ==
    \/ \E workflow_id \in { WorkflowId(d) : d \in Offered } :
          \E variables \in StartInputs(workflow_id) : StartWorkflow(workflow_id, variables)
    \/ \E i \in 1..Len(coroutines) : ServiceReturns(i)
    \/ \E i \in 1..Len(coroutines) : ServiceFails(i)
    \/ \E i \in 1..Len(coroutines) : TimerFires(i)
    \/ \E execution_id \in 1..(MaxExecutions + 1), node_id \in NodeIds, task_data \in TaskData :
          CompleteTask(execution_id, node_id, task_data)
    \/ \E execution_id \in 1..(MaxExecutions + 1) : GetExecutionStatus(execution_id)
    \/ \E workflow_def \in Submitted : RegisterWorkflow(workflow_def)

Spec == Init /\ [][Next]_vars

\* A coroutine suspended at asyncio.sleep is resumed: the event loop runs every
\* coroutine whose sleep has ended, and a sleep of 0.1 s or of the timer's
\* duration ends.
Resume ==
    \E i \in 1..Len(coroutines) : ServiceReturns(i) \/ ServiceFails(i) \/ TimerFires(i)

FairSpec == Spec /\ WF_vars(Resume)

\* The user ids get_waiting_tasks is called with: none, and the assignees of
\* the definitions' human tasks.
Users == {None, Some("manager"), Some("auditor")}

\* The engine with its task listing.
NextQueries ==
    \/ Next
    \/ \E user_id \in Users : GetWaitingTasks(user_id)

SpecQueries == Init /\ [][NextQueries]_vars

\* ------------------------------------- specification of validate() alone

\* The sets of at most k of the given edges.
RECURSIVE EdgeSets(_, _)
EdgeSets(pairs, k) ==
    IF k = 0 THEN {{}}
    ELSE LET fewer == EdgeSets(pairs, k - 1)
         IN fewer \cup { edges \cup {p} : edges \in fewer, p \in pairs }

\* The definition add_node and connect_nodes build from the nodes `types`
\* (node id -> node type) and the edges `edges` (pairs of node ids).
Definition(types, edges) ==
    [n \in DOMAIN types |->
        LET targets == SelectSeq([i \in 1..MaxNodes |-> i], LAMBDA t : <<n, t>> \in edges)
        IN Node(types[n], [i \in 1..Len(targets) |-> Conn(targets[i])])]

\* Every definition of at most max_nodes nodes, each a START, an END or a
\* service task, and at most max_edges edges between them.
Candidates(max_nodes, max_edges) ==
    UNION { { Definition(types, edges) : types \in [ids -> {START, END, SERVICE_TASK}],
                                         edges \in EdgeSets(ids \X ids, max_edges) } :
            ids \in SUBSET (1..max_nodes) }

\* A fresh engine and a definition that has been built but not validated.
InitValidate ==
    /\ workflow_definitions = EmptyDict
    /\ executions = EmptyDict
    /\ coroutines = <<>>
    /\ returns = {}
    /\ raised = None
    /\ candidate \in Candidates(MaxNodes, MaxEdges)
    /\ errors = None
    /\ builder = NewBuilder
    /\ reply = None

\* A call of candidate.validate().
ValidateCandidate ==
    /\ errors = None
    /\ errors' = Some(Validate(candidate))
    /\ UNCHANGED <<workflow_definitions, executions, coroutines, returns, raised, candidate,
                   builder, reply>>

NextValidate == ValidateCandidate

SpecValidate == InitValidate /\ [][NextValidate]_vars

\* ------------------------------- specification of two runs side by side

\* The definitions that are run twice.
TwinDefs == {"fork_race", "fork_decide", "fork_human", "fork_timer", "review", "chain"}

\* WorkflowEngine.start_workflow up to its first await that suspends, for
\* execution x of the definition with the variables.
TwinStart(workflow_def, x, variables) ==
    StartRun(NewExecution(WorkflowId(workflow_def), x, workflow_def, variables))

\* An engine in which start_workflow has been called twice with the same
\* workflow id and the same initial variables.
InitTwin ==
    \E w \in TwinDefs :
       \E variables \in StartInputs(w) :
          LET call(x) == Call("start_workflow", x, "", variables, 0)
              suspended == SelectSeq(<<1, 2>>,
                                     LAMBDA x : TwinStart(w, x, variables).awaiting # None)
          IN /\ workflow_definitions = [d \in {WorkflowId(w)} |-> w]
             /\ executions = [x \in {1, 2} |-> TwinStart(w, x, variables).exec]
             /\ coroutines = [i \in 1..Len(suspended) |->
                                 [call |-> call(suspended[i]),
                                  awaiting |-> TwinStart(w, suspended[i], variables).awaiting[1],
                                  todo |-> TwinStart(w, suspended[i], variables).todo]]
             /\ returns = { call(x) : x \in { y \in {1, 2} :
                                                 TwinStart(w, y, variables).awaiting = None } }
             /\ raised = None
             /\ candidate = EmptyDict
             /\ errors = None
             /\ builder = NewBuilder
             /\ reply = None

NextTwin ==
    \/ \E i \in 1..Len(coroutines) : ServiceReturns(i)
    \/ \E i \in 1..Len(coroutines) : ServiceFails(i)
    \/ \E i \in 1..Len(coroutines) : TimerFires(i)
    \/ \E execution_id \in {1, 2}, node_id \in NodeIds, task_data \in TaskData :
          CompleteTask(execution_id, node_id, task_data)

SpecTwin == InitTwin /\ [][NextTwin]_vars

\* ------------------- specification of a second start beside a running one

\* The definitions started in an engine that already runs an execution.
PairDefs == {"review", "fork_human", "fork_timer"}

\* A fresh engine with the definitions registered.
InitPair ==
    /\ workflow_definitions = [w \in PairDefs |-> w]
    /\ executions = EmptyDict
    /\ coroutines = <<>>
    /\ returns = {}
    /\ raised = None
    /\ candidate = EmptyDict
    /\ errors = None
    /\ builder = NewBuilder
    /\ reply = None

\* start_workflow is called twice, the second time at any point of the first
\* execution's run, and the steps of the two executions interleave.
NextPair ==
    \/ \E workflow_id \in PairDefs :
          \E variables \in StartInputs(workflow_id) :
             /\ DOMAIN executions \in {{}, {1}}
             /\ StartCall(workflow_id, variables)
    \/ \E i \in 1..Len(coroutines) : ServiceReturns(i)
    \/ \E i \in 1..Len(coroutines) : ServiceFails(i)
    \/ \E i \in 1..Len(coroutines) : TimerFires(i)
    \/ \E execution_id \in {1, 2}, node_id \in NodeIds, task_data \in TaskData :
          CompleteTask(execution_id, node_id, task_data)

SpecPair == InitPair /\ [][NextPair]_vars

\* --------------------------------------- specification of WorkflowBuilder

\* The number of calls made on one builder.
MaxCalls == 5

\* WorkflowDefinition.add_node.
AddNode(workflow_def, node_id, node) == DictSet(workflow_def, node_id, node)

\* WorkflowDefinition.connect_nodes without a condition: the edge is added
\* when both nodes exist.
ConnectNodes(workflow_def, from_node, to_node) ==
    IF from_node \in DOMAIN workflow_def /\ to_node \in DOMAIN workflow_def
    THEN [workflow_def EXCEPT ![from_node].outgoing = Append(@, Conn(to_node))]
    ELSE workflow_def

\* A builder that adds the node and connects nothing.
ChainedUnconnected(node_id, node) == AddNode(candidate, node_id, node)

\* What end, service_task, human_task and decision do to the workflow: add the
\* node, and connect last_node_id to it if last_node_id is set.
Chained(node_id, node) ==
    LET added == AddNode(candidate, node_id, node)
    IN IF builder.last_node_id # None
       THEN ConnectNodes(added, builder.last_node_id[1], node_id)
       ELSE added

\* A call on the builder is made before build(), and is recorded.
Called(op, node_id) ==
    [builder EXCEPT !.calls = Append(@, [op |-> op, node_id |-> node_id])]

BuilderFrame ==
    /\ builder.built = None
    /\ Len(builder.calls) < MaxCalls
    /\ UNCHANGED <<workflow_definitions, executions, coroutines, returns, raised, errors,
                   reply>>

\* WorkflowBuilder.start.
BuilderStart(node_id) ==
    /\ BuilderFrame
    /\ candidate' = AddNode(candidate, node_id, StartNode(<<>>))
    /\ builder' = [Called("start", node_id) EXCEPT !.last_node_id = Some(node_id)]

\* WorkflowBuilder.end: last_node_id stays what it was.
BuilderEnd(node_id) ==
    /\ BuilderFrame
    /\ candidate' = Chained(node_id, EndNode)
    /\ builder' = Called("end", node_id)

\* WorkflowBuilder.service_task.
BuilderServiceTask(node_id) ==
    /\ BuilderFrame
    /\ candidate' = Chained(node_id, ServiceTaskNode(<<>>, <<>>, <<>>))
    /\ builder' = [Called("service_task", node_id) EXCEPT !.last_node_id = Some(node_id)]

\* WorkflowBuilder.human_task.
BuilderHumanTask(node_id, assignee) ==
    /\ BuilderFrame
    /\ candidate' = Chained(node_id, HumanTaskNode(assignee, <<>>))
    /\ builder' = [Called("human_task", node_id) EXCEPT !.last_node_id = Some(node_id)]

\* WorkflowBuilder.decision.
BuilderDecision(node_id) ==
    /\ BuilderFrame
    /\ candidate' = Chained(node_id, DecisionNode(<<>>))
    /\ builder' = [Called("decision", node_id) EXCEPT !.last_node_id = Some(node_id)]

\* WorkflowBuilder.connect_to without a condition.
BuilderConnectTo(to_node_id) ==
    /\ BuilderFrame
    /\ candidate' = IF builder.last_node_id # None
                    THEN ConnectNodes(candidate, builder.last_node_id[1], to_node_id)
                    ELSE candidate
    /\ builder' = Called("connect_to", to_node_id)

\* WorkflowBuilder.build: returns self.workflow.
BuilderBuild ==
    /\ BuilderFrame
    /\ candidate' = candidate
    /\ builder' = [Called("build", 0) EXCEPT !.built = Some(candidate)]

\* A fresh builder.
InitBuilder ==
    /\ workflow_definitions = EmptyDict
    /\ executions = EmptyDict
    /\ coroutines = <<>>
    /\ returns = {}
    /\ raised = None
    /\ candidate = EmptyDict
    /\ errors = None
    /\ builder = NewBuilder
    /\ reply = None

\* The node id of the next node-adding call: the number of the call, an id
\* that no node of the workflow has yet.
FreshId == Len(builder.calls) + 1

\* connect_to is called with a node of the workflow or with an id of none (0).
NextBuilder ==
    \/ BuilderStart(FreshId)
    \/ BuilderEnd(FreshId)
    \/ BuilderServiceTask(FreshId)
    \/ BuilderHumanTask(FreshId, "manager")
    \/ BuilderDecision(FreshId)
    \/ \E to_node_id \in DOMAIN candidate \cup {0} : BuilderConnectTo(to_node_id)
    \/ BuilderBuild

SpecBuilder == InitBuilder /\ [][NextBuilder]_vars

\* ---------------------------------------------------------- properties

RECURSIVE Count(_, _)
Count(seq, x) ==
    IF seq = <<>> THEN 0
    ELSE (IF Head(seq) = x THEN 1 ELSE 0) + Count(Tail(seq), x)

Executed(e, node_id) == \E i \in 1..Len(e.trace) : e.trace[i] = node_id

\* No call on the execution is suspended at an await.
Idle(execution_id) ==
    \A i \in 1..Len(coroutines) : coroutines[i].call.execution_id # execution_id

\* The nodes with an edge to node_id, and the number of such edges.
Preds(workflow_def, node_id) ==
    { p \in DOMAIN workflow_def :
        \E i \in 1..Len(workflow_def[p].outgoing) :
            workflow_def[p].outgoing[i].node_id = node_id }

Incoming(workflow_def, node_id) ==
    Cardinality(UNION { { <<p, i>> : i \in { k \in 1..Len(workflow_def[p].outgoing) :
                                               workflow_def[p].outgoing[k].node_id = node_id } } :
                        p \in DOMAIN workflow_def })

Targets(node) == { node.outgoing[i].node_id : i \in 1..Len(node.outgoing) }

IsJoin(workflow_def, node_id) ==
    /\ workflow_def[node_id].node_type = PARALLEL_GATEWAY
    /\ workflow_def[node_id].gateway_type = "join"
    /\ Incoming(workflow_def, node_id) >= 2

IsFork(workflow_def, node_id) ==
    /\ workflow_def[node_id].node_type = PARALLEL_GATEWAY
    /\ workflow_def[node_id].gateway_type = "fork"

RecordIs(e, node_id, statuses) ==
    /\ node_id \in DOMAIN e.node_executions
    /\ e.node_executions[node_id].status \in statuses

\* C1: JOIN barrier.  In every run of a definition with a parallel join of
\* N >= 2 incoming edges, a node after the join is executed at most once, and
\* only when every branch into the join has completed and arrived.
C1_JoinBarrier ==
    \A x \in DOMAIN executions :
        LET e == executions[x]
        IN \A j \in DOMAIN Nodes(e) :
              IsJoin(Nodes(e), j) =>
                  \A s \in Targets(Nodes(e)[j]) :
                      /\ Count(e.trace, s) <= 1
                      /\ Executed(e, s) =>
                            /\ Count(e.trace, j) >= Incoming(Nodes(e), j)
                            /\ \A p \in Preds(Nodes(e), j) :
                                  RecordIs(e, p, {COMPLETED})

\* C2: status COMPLETED only if every thread of control has ended: no pending
\* human task, no node record RUNNING or WAITING, no call still suspended with
\* work of the run left to do.
C2_CompletedMeansAllEnded ==
    \A x \in DOMAIN executions :
        LET e == executions[x]
        IN e.status = COMPLETED =>
              /\ DOMAIN e.waiting_tasks = {}
              /\ \A n \in DOMAIN e.node_executions :
                    e.node_executions[n].status \notin {RUNNING, WAITING}
              /\ Idle(x)

\* C3: fail-fast.  Once the status is FAILED it stays FAILED, and no further
\* node of the execution is executed.
C3_FailFast ==
    [][\A x \in DOMAIN executions :
          executions[x].status = FAILED =>
              /\ executions'[x].status = FAILED
              /\ executions'[x].trace = executions[x].trace]_vars

\* C4: an execution with a pending human task and no call in progress on it
\* has status WAITING.
C4_ParkedIsWaiting ==
    \A x \in DOMAIN executions :
        (DOMAIN executions[x].waiting_tasks # {} /\ Idle(x)) =>
            executions[x].status = WAITING

\* The trace of execution x before the step (empty if the step creates x).
OldTrace(x) == IF x \in DOMAIN executions THEN executions[x].trace ELSE <<>>

\* The calls made in the step: suspended or returned after it, unknown before.
SuspendedCalls == { coroutines[i].call : i \in 1..Len(coroutines) }
NewCalls == (returns' \cup { coroutines'[i].call : i \in 1..Len(coroutines') })
                \ (returns \cup SuspendedCalls)

\* C5: resume.  complete_task on a pending human task writes every key of the
\* answers into the variables (overwriting), removes the task from
\* waiting_tasks, marks the node record COMPLETED and goes on to the node's
\* successors: the first at once, all of them by the time the call returns.
\* When the only successor is END the execution is COMPLETED, with approved
\* true if the answers said so.
C5_Resume ==
    [][/\ \A c \in NewCalls :
             c.op = "complete_task" =>
                 LET e == executions[c.execution_id]
                     f == executions'[c.execution_id]
                     next_nodes == NextNodes(Nodes(e)[c.node_id])
                 IN /\ c.node_id \in DOMAIN e.waiting_tasks
                    /\ \A k \in DOMAIN c.data :
                          k \in DOMAIN f.variables /\ f.variables[k] = c.data[k]
                    /\ c.node_id \notin DOMAIN f.waiting_tasks
                    /\ RecordIs(f, c.node_id, {COMPLETED})
                    /\ next_nodes # <<>> =>
                          /\ Len(f.trace) > Len(e.trace)
                          /\ f.trace[Len(e.trace) + 1] = next_nodes[1]
                    /\ (Len(next_nodes) = 1 /\ Nodes(e)[next_nodes[1]].node_type = END) =>
                          /\ f.status = COMPLETED
                          /\ c.data.approved => f.variables.approved
       /\ \A c \in returns' :
             c.op = "complete_task" =>
                 LET f == executions'[c.execution_id]
                 IN \A s \in Targets(Nodes(f)[c.node_id]) :
                       \E i \in (c.mark + 1)..Len(f.trace) : f.trace[i] = s]_vars

\* Scenario B resumed: the review task was completed with approved = true and
\* the execution is COMPLETED with variables.approved true.
C5_Witness ==
    \E c \in returns :
        /\ c.op = "complete_task"
        /\ c.data.approved
        /\ executions[c.execution_id].workflow_id = "review"
        /\ executions[c.execution_id].status = COMPLETED
        /\ executions[c.execution_id].variables.approved

\* C6: in start -> fork -> (A, B) -> join -> end the status is never COMPLETED
\* while the record of A or of B is missing or not COMPLETED.
C6_CompletedAfterBoth ==
    \A x \in DOMAIN executions :
        (executions[x].workflow_def = "fork_join" /\ executions[x].status = COMPLETED) =>
            /\ RecordIs(executions[x], "A", {COMPLETED})
            /\ RecordIs(executions[x], "B", {COMPLETED})

\* C7: the branches of a fork progress concurrently: in every state after a
\* fork was executed each of its children has a node record, so that the
\* records of all children exist before any of them completes and a child
\* awaiting its service call or its timer does not hold back its sibling.
C7_SiblingsConcurrent ==
    \A x \in DOMAIN executions :
        LET e == executions[x]
        IN \A f \in DOMAIN Nodes(e) :
              (IsFork(Nodes(e), f) /\ Executed(e, f)) =>
                  \A t \in Targets(Nodes(e)[f]) : t \in DOMAIN e.node_executions

\* C8: fork fan-out.  Each execution of a fork delivers control once to the
\* target of each of its edges: never more often than the fork was executed,
\* to the first target at once and to every target by the time the calls on
\* the execution have returned, also when an earlier branch parked at a human
\* task.  (Targets are counted by their executions, so the formula speaks of
\* targets whose only incoming edge is the fork's.)
C8_ForkFanOut ==
    \A x \in DOMAIN executions :
        LET e == executions[x]
        IN \A f \in DOMAIN Nodes(e) :
              IsFork(Nodes(e), f) =>
                  \A i \in 1..Len(Nodes(e)[f].outgoing) :
                      LET t == Nodes(e)[f].outgoing[i].node_id
                      IN Incoming(Nodes(e), t) = 1 =>
                            /\ Count(e.trace, t) <= Count(e.trace, f)
                            /\ (i = 1 \/ Idle(x)) => Count(e.trace, t) = Count(e.trace, f)

\* A fork whose first branch is parked at its human task while the second
\* branch has been executed and every call has returned.
C8_Witness ==
    \E x \in DOMAIN executions :
        /\ executions[x].workflow_def = "fork_human"
        /\ Idle(x)
        /\ "manual_review" \in DOMAIN executions[x].waiting_tasks
        /\ Executed(executions[x], "fork")
        /\ Executed(executions[x], "B")

\* Every condition of the node names a variable the execution has.
ConditionsDefined(node, variables) ==
    \A i \in 1..Len(node.outgoing) :
        node.outgoing[i].condition # None =>
            node.outgoing[i].condition[1].lhs \in DOMAIN variables

\* C9: DECISION default route.  When no conditioned edge of an executed decision
\* is true (each condition evaluated on variables the execution has): with a
\* default edge the run goes on along it; without one the decision node fails
\* and the execution is FAILED with NoViableRoute.  The variables of a step are
\* written before its first node is executed, so the decisions of a step read
\* the variables the step ends with.
C9_DefaultRoute ==
    [][\A x \in DOMAIN executions' :
          LET f == executions'[x]
          IN \A i \in (Len(OldTrace(x)) + 1)..Len(f.trace) :
                LET node == Nodes(f)[f.trace[i]]
                IN (/\ node.node_type = DECISION
                    /\ ConditionsDefined(node, f.variables)
                    /\ Matching(node, f.variables) = {}) =>
                      IF DefaultRoute(node) # <<>>
                      THEN i < Len(f.trace) /\ f.trace[i + 1] = DefaultRoute(node)[1]
                      ELSE /\ f.status = FAILED
                           /\ RecordIs(f, f.trace[i], {FAILED})
                           /\ f.node_executions[f.trace[i]].error_message
                                 = Some("NoViableRoute")]_vars

\* C10: a decision whose first condition names a variable the execution does
\* not have fails (InvalidExpression) and the execution is FAILED.
C10_AbsentVariableFails ==
    \A x \in DOMAIN executions :
        LET e == executions[x]
        IN \A d \in DOMAIN Nodes(e) :
              LET conditioned == { i \in 1..Len(Nodes(e)[d].outgoing) :
                                     Nodes(e)[d].outgoing[i].condition # None }
              IN (/\ Nodes(e)[d].node_type = DECISION
                  /\ Executed(e, d)
                  /\ conditioned # {}
                  /\ Nodes(e)[d].outgoing[Min(conditioned)].condition[1].lhs
                        \notin DOMAIN e.variables) =>
                     /\ RecordIs(e, d, {FAILED})
                     /\ e.status = FAILED

\* The nodes a run can execute from node_id on, node_id included.
RECURSIVE ReachFrom(_, _, _)
ReachFrom(workflow_def, seen, frontier) ==
    IF frontier \subseteq seen THEN seen
    ELSE ReachFrom(workflow_def, seen \cup frontier,
                   UNION { IF n \in DOMAIN workflow_def THEN Targets(workflow_def[n]) ELSE {} :
                           n \in frontier })

\* The conditioned edges of a decision whose comparison is true of the variables.
TrueEdges(node, variables) ==
    { i \in 1..Len(node.outgoing) :
        /\ node.outgoing[i].condition # None
        /\ LET c == node.outgoing[i].condition[1]
           IN c.lhs \in DOMAIN variables /\ Compare(c.op, variables[c.lhs], c.rhs) }

\* C11: DECISION first match.  When at least one conditioned edge of an executed
\* decision is true, the next node executed is the target of the first such
\* edge in declaration order, and the step executes no target of another edge
\* of the decision (a later true edge, a default edge) unless the run reaches it
\* through the chosen target.
C11_FirstMatch ==
    [][\A x \in DOMAIN executions' :
          LET f == executions'[x]
          IN \A i \in (Len(OldTrace(x)) + 1)..Len(f.trace) :
                LET node == Nodes(f)[f.trace[i]]
                    true == TrueEdges(node, f.variables)
                    first == node.outgoing[CHOOSE k \in true : \A j \in true : k <= j].node_id
                IN (node.node_type = DECISION /\ true # {}) =>
                      /\ i < Len(f.trace)
                      /\ f.trace[i + 1] = first
                      /\ \A j \in (i + 2)..Len(f.trace) :
                            f.trace[j] \in Targets(node) =>
                                f.trace[j] \in ReachFrom(Nodes(f), {}, {first})]_vars

\* A decision with two true edges and a default has run: score 650 in `tiers`
\* went to manual_review, the first, and neither audit nor end was executed.
C11_Witness ==
    \E x \in DOMAIN executions :
        /\ executions[x].workflow_def = "tiers"
        /\ Cardinality(TrueEdges(Nodes(executions[x])["credit_decision"],
                                 executions[x].variables)) = 2
        /\ executions[x].trace = <<"start", "credit_decision", "manual_review">>
        /\ "manual_review" \in DOMAIN executions[x].waiting_tasks

\* C12: when start_workflow returns, the execution it created is COMPLETED or
\* FAILED, or has at least one pending human task; it is never left neither
\* terminal nor waiting for a task, with nothing more to execute.
C12_ReturnsSettled ==
    [][\A c \in returns' \ returns :
          c.op = "start_workflow" =>
              \/ executions'[c.execution_id].status \in {COMPLETED, FAILED}
              \/ DOMAIN executions'[c.execution_id].waiting_tasks # {}]_vars

\* The definition is a chain START -> SERVICE_TASK -> ... -> END: from node_id
\* on, each node has one unconditioned edge, to a service task or to the END.
RECURSIVE ChainFrom(_, _, _)
ChainFrom(workflow_def, node_id, fuel) ==
    /\ fuel > 0
    /\ node_id \in DOMAIN workflow_def
    /\ \/ workflow_def[node_id].node_type = END
       \/ /\ workflow_def[node_id].node_type \in {START, SERVICE_TASK}
          /\ Len(workflow_def[node_id].outgoing) = 1
          /\ workflow_def[node_id].outgoing[1].condition = None
          /\ workflow_def[workflow_def[node_id].outgoing[1].node_id].node_type
                \in {SERVICE_TASK, END}
          /\ ChainFrom(workflow_def, workflow_def[node_id].outgoing[1].node_id, fuel - 1)

PureChain(workflow_def) ==
    /\ \A n \in DOMAIN workflow_def : workflow_def[n].node_type \in {START, SERVICE_TASK, END}
    /\ \E n \in DOMAIN workflow_def : workflow_def[n].node_type = SERVICE_TASK
    /\ \E n \in DOMAIN workflow_def :
          /\ workflow_def[n].node_type = START
          /\ ChainFrom(workflow_def, n, Cardinality(DOMAIN workflow_def))

\* The start_workflow call that created execution x has returned.
Started(x) == \E c \in returns : c.op = "start_workflow" /\ c.execution_id = x

\* C13 as stated: a pure chain START -> SERVICE_TASK(s) -> END has status
\* COMPLETED when start_workflow has returned, and never a pending task.
C13_ChainCompletes ==
    \A x \in DOMAIN executions :
        PureChain(Nodes(executions[x])) =>
            /\ DOMAIN executions[x].waiting_tasks = {}
            /\ Started(x) => executions[x].status = COMPLETED

\* Execution x is of a pure chain; its start_workflow has returned with a
\* terminal status.
ChainRuns(x) == x \in DOMAIN executions /\ PureChain(Nodes(executions[x]))
ChainEnded(x) == Started(x) /\ executions[x].status \in {COMPLETED, FAILED}

\* C13, amended: every run of a pure chain terminates, start_workflow returns
\* (while a chain runs, a moment comes at which every chain has ended);
\* the status is then COMPLETED with the END executed if every service call
\* returned, and FAILED with nothing executed after the failed node if a
\* service call raised; no task is ever pending.
C13_ChainTerminates ==
    /\ [](\A x \in DOMAIN executions :
              LET e == executions[x]
                  failed == { n \in DOMAIN e.node_executions :
                                e.node_executions[n].status = FAILED }
              IN PureChain(Nodes(e)) =>
                    /\ DOMAIN e.waiting_tasks = {}
                    /\ Started(x) =>
                          IF failed = {}
                          THEN /\ e.status = COMPLETED
                               /\ \A n \in DOMAIN Nodes(e) : RecordIs(e, n, {COMPLETED})
                          ELSE /\ e.status = FAILED
                               /\ e.trace[Len(e.trace)] \in failed)
    /\ (\E x \in 1..MaxExecutions : ChainRuns(x) /\ ~ChainEnded(x))
          ~> (\A x \in 1..MaxExecutions : ChainRuns(x) => ChainEnded(x))

\* start -> check -> process -> end has run to its END through two service calls.
C13_Witness ==
    \E x \in DOMAIN executions :
        /\ executions[x].workflow_def = "chain2"
        /\ Started(x)
        /\ executions[x].status = COMPLETED
        /\ executions[x].trace = <<"start", "check", "process", "end">>

\* C14: start -> end, started with no variables, ends COMPLETED when
\* start_workflow returns, which it does without suspending; the execution has
\* node records for exactly START and END, both COMPLETED.
C14_StartEnd ==
    \A x \in DOMAIN executions :
        LET e == executions[x]
        IN (e.workflow_def = "start_end" /\ DOMAIN e.variables = {}) =>
              /\ Started(x)
              /\ e.status = COMPLETED
              /\ DOMAIN e.node_executions = {"start", "end"}
              /\ \A n \in DOMAIN e.node_executions : e.node_executions[n].status = COMPLETED
              /\ e.trace = <<"start", "end">>

C14_Witness ==
    \E x \in DOMAIN executions :
        /\ Nodes(executions[x]) = WfStartEnd
        /\ executions[x].variables = EmptyDict
        /\ executions[x].completed_at # None

\* The step is a call of `op` that raised; Raised is the error.
Raises(op) == raised' # None /\ raised'[1].op = op
Raised == raised'[1]

\* Nothing but `raised` changes in the step.
NothingWritten == UNCHANGED <<workflow_definitions, executions, coroutines, returns>>

\* The complete_task calls on node n of execution x that were accepted.
Completions(calls, x, n) ==
    { c \in calls : c.op = "complete_task" /\ c.execution_id = x /\ c.node_id = n }

\* C15: complete_task is accepted only for a node that has a pending task when
\* the call is made; a call for any other node of a known execution (never
\* reached, not a human task, already completed) raises and leaves status,
\* variables, node records and waiting_tasks as they were.  So a node is
\* completed at most as often as it was executed, a task at most once.
C15_OnlyPendingTasks ==
    [][/\ \A c \in NewCalls :
             c.op = "complete_task" =>
                 /\ c.execution_id \in DOMAIN executions
                 /\ c.node_id \in DOMAIN executions[c.execution_id].waiting_tasks
                 /\ Nodes(executions[c.execution_id])[c.node_id].node_type = HUMAN_TASK
       /\ (Raises("complete_task") /\ Raised.message # "execution not found") =>
             /\ NothingWritten
             /\ \E x \in DOMAIN executions :
                   \/ Raised.node_id \notin DOMAIN executions[x].waiting_tasks
                   \/ Nodes(executions[x])[Raised.node_id].node_type # HUMAN_TASK
       /\ \A x \in DOMAIN executions' :
             \A n \in NodeIds :
                 Cardinality(Completions(returns' \cup { coroutines'[i].call :
                                                           i \in 1..Len(coroutines') }, x, n))
                     <= Count(executions'[x].trace, n)]_vars

\* A second complete_task for manual_review, after the first was accepted and
\* the node completed, has just been refused.
C15_Witness ==
    /\ raised # None
    /\ raised[1].op = "complete_task"
    /\ raised[1].node_id = "manual_review"
    /\ \E x \in DOMAIN executions :
          /\ Completions(returns, x, "manual_review") # {}
          /\ RecordIs(executions[x], "manual_review", {COMPLETED})
          /\ executions[x].status = COMPLETED

\* C16 as stated: complete_task is accepted only for an execution id that
\* start_workflow has returned.
C16_OnlyReturnedIds ==
    [][\A c \in NewCalls :
          c.op = "complete_task" => Started(c.execution_id)]_vars

\* C16, amended: complete_task and get_execution_status with an execution id
\* that is not a key of the engine's executions raise and write nothing, and
\* complete_task is accepted only for an id that is a key.  (An execution is a
\* key from the moment start_workflow creates it, before start_workflow returns.)
C16_UnknownExecution ==
    [][/\ \A c \in NewCalls :
             c.op = "complete_task" => c.execution_id \in DOMAIN executions
       /\ (raised' # None /\ raised'[1].message = "execution not found") =>
             /\ Raised.op \in {"complete_task", "get_execution_status"}
             /\ Raised.execution_id \notin DOMAIN executions
             /\ NothingWritten]_vars

\* complete_task with an id the engine never issued has just been refused,
\* beside an execution that has a pending task.
C16_Witness ==
    /\ raised # None
    /\ raised[1].op = "complete_task"
    /\ raised[1].message = "execution not found"
    /\ raised[1].execution_id \notin DOMAIN executions
    /\ \E x \in DOMAIN executions : DOMAIN executions[x].waiting_tasks # {}

\* C17: start_workflow with a workflow id that is not registered raises, adds
\* no entry to executions and executes no node; every execution that is
\* created is of a registered workflow id.
C17_UnknownWorkflow ==
    [][/\ Raises("start_workflow") =>
             /\ Raised.workflow_id \notin DOMAIN workflow_definitions
             /\ Raised.message = "workflow not found"
             /\ NothingWritten
       /\ \A x \in DOMAIN executions' \ DOMAIN executions :
             /\ executions'[x].workflow_id \in DOMAIN workflow_definitions
             /\ executions'[x].workflow_def = workflow_definitions[executions'[x].workflow_id]]_vars

\* start_workflow("no_end") has just been refused, and no execution exists.
C17_Witness ==
    /\ raised # None
    /\ raised[1].op = "start_workflow"
    /\ raised[1].workflow_id = "no_end"
    /\ DOMAIN executions = {}

\* The definitions of the Catalog for which validate() returns messages.
Refused == { d \in DOMAIN Catalog : Validate(Catalog[d]) # <<>> }

\* C18: register_workflow of a definition for which validate() returns
\* messages raises an error that lists them and leaves the registry as it was;
\* no registered definition and no definition an execution runs has
\* validation messages.
C18_RejectedNotRegistered ==
    [][/\ Raises("register_workflow") =>
             /\ Raised.workflow_id \in Refused
             /\ Raised.diagnostics = Validate(Catalog[Raised.workflow_id])
             /\ NothingWritten
       /\ \A w \in DOMAIN workflow_definitions' : workflow_definitions'[w] \notin Refused
       /\ \A x \in DOMAIN executions' : executions'[x].workflow_def \notin Refused]_vars

\* register_workflow of the definition without END has just been refused with
\* its two messages, and the definition is not in the registry.
C18_Witness ==
    /\ raised # None
    /\ raised[1].op = "register_workflow"
    /\ Len(raised[1].diagnostics) = 2
    /\ raised[1].workflow_id \notin DOMAIN workflow_definitions
    /\ workflow_definitions["review"] = "review_v2"

\* The structural invariants of a definition, each on its own.
OneStart(workflow_def) ==
    Cardinality({ n \in DOMAIN workflow_def : workflow_def[n].node_type = START }) = 1

SomeEnd(workflow_def) ==
    \E n \in DOMAIN workflow_def : workflow_def[n].node_type = END

AllEntered(workflow_def) ==
    \A n \in DOMAIN workflow_def :
        workflow_def[n].node_type # START => Preds(workflow_def, n) # {}

AllLeft(workflow_def) ==
    \A n \in DOMAIN workflow_def :
        workflow_def[n].node_type # END => workflow_def[n].outgoing # <<>>

\* validate() returned a message of one of the kinds.
Reported(kinds) == \E i \in 1..Len(errors[1]) : errors[1][i].kind \in kinds

\* C19: validate() returns the empty list exactly for the definitions with
\* exactly one START node, at least one END node, an incoming edge at every
\* node but the START (END nodes included) and an outgoing edge at every node
\* but the ENDs (the START included).
C19_ValidIffWellFormed ==
    errors # None =>
        (errors[1] = <<>> <=> /\ OneStart(candidate)
                              /\ SomeEnd(candidate)
                              /\ AllEntered(candidate)
                              /\ AllLeft(candidate))

\* C20: validate() goes on after the first problem: for a definition that
\* violates two or more of the structural invariants, the list has a message
\* for each invariant that is violated.
C20_EveryViolationReported ==
    (/\ errors # None
     /\ Cardinality({ k \in 1..4 :
                        \/ k = 1 /\ ~OneStart(candidate)
                        \/ k = 2 /\ ~SomeEnd(candidate)
                        \/ k = 3 /\ ~AllEntered(candidate)
                        \/ k = 4 /\ ~AllLeft(candidate) }) >= 2) =>
        /\ ~OneStart(candidate) => Reported({"no_start", "many_starts"})
        /\ ~SomeEnd(candidate) => Reported({"no_end"})
        /\ ~AllEntered(candidate) => Reported({"no_incoming"})
        /\ ~AllLeft(candidate) => Reported({"no_outgoing"})

\* ------------------------------------------------- claims C21 to C30

\* The node-adding calls of a builder, in order.
NodeCalls(calls) == SelectSeq(calls, LAMBDA c : c.op \notin {"connect_to", "build"})

\* start(), then service_task, human_task or decision calls, then end(), then
\* build().
IsChain(calls) ==
    /\ Len(calls) >= 3
    /\ calls[1].op = "start"
    /\ calls[Len(calls) - 1].op = "end"
    /\ calls[Len(calls)].op = "build"
    /\ \A i \in 2..(Len(calls) - 2) : calls[i].op \in {"service_task", "human_task", "decision"}

\* C21: every definition build() has returned passes validate(): build()
\* refuses, with an error, a workflow that validate() has messages for.
C21_BuildValidates ==
    builder.built # None => Validate(builder.built[1]) = <<>>

\* C22: the definition built by start(), any service_task, human_task and
\* decision calls with distinct node ids, end() and build() has one node for
\* each of these calls, and validate() has no message for it.
C22_ChainIsValid ==
    (builder.built # None /\ IsChain(builder.calls)) =>
        /\ Cardinality(DOMAIN builder.built[1]) = Len(builder.calls) - 1
        /\ \A i \in 1..(Len(builder.calls) - 1) :
              builder.calls[i].node_id \in DOMAIN builder.built[1]
        /\ Validate(builder.built[1]) = <<>>

C22_Witness ==
    /\ builder.built # None
    /\ IsChain(builder.calls)
    /\ Len(builder.calls) = 5
    /\ builder.calls[2].op = "service_task"
    /\ builder.calls[3].op = "human_task"

\* C23: a call of end, service_task, human_task or decision adds an edge to
\* the new node from the node that the node-adding call before it added, also
\* when that call was end().
C23_ChainsFromPrevious ==
    [][\A op \in {"end", "service_task", "human_task", "decision"} :
          (/\ Len(builder'.calls) = Len(builder.calls) + 1
           /\ builder'.calls[Len(builder'.calls)].op = op
           /\ NodeCalls(builder.calls) # <<>>) =>
              LET before == NodeCalls(builder.calls)
                  from == before[Len(before)].node_id
                  to == builder'.calls[Len(builder'.calls)].node_id
              IN \E i \in 1..Len(candidate'[from].outgoing) :
                    candidate'[from].outgoing[i].node_id = to]_vars

\* C24: registering another definition under a workflow id changes no
\* execution: an execution stays bound to the definition it was started with,
\* every node it executes is the START node of that definition or the target of
\* an edge of that definition from a node it has executed, and an execution
\* that is started is bound to the definition registered at that moment.
C24_BoundToItsDefinition ==
    [][\A x \in DOMAIN executions' :
          LET after == executions'[x]
              def == Catalog[after.workflow_def]
              old == IF x \in DOMAIN executions THEN Len(executions[x].trace) ELSE 0
          IN /\ x \in DOMAIN executions =>
                    after.workflow_def = executions[x].workflow_def
             /\ x \notin DOMAIN executions =>
                    /\ after.workflow_id \in DOMAIN workflow_definitions
                    /\ after.workflow_def = workflow_definitions[after.workflow_id]
             /\ \A i \in (old + 1)..Len(after.trace) :
                    /\ after.trace[i] \in DOMAIN def
                    /\ \/ def[after.trace[i]].node_type = START
                       \/ \E j \in 1..(i - 1) :
                             \E k \in 1..Len(def[after.trace[j]].outgoing) :
                                def[after.trace[j]].outgoing[k].node_id = after.trace[i]]_vars

\* An execution of the first definition of "review" is suspended at its human
\* task after the second definition was registered under the same id.
C24_Witness ==
    /\ workflow_definitions["review"] = "review_v2"
    /\ \E x \in DOMAIN executions :
          /\ executions[x].workflow_def = "review"
          /\ "manual_review" \in DOMAIN executions[x].waiting_tasks

\* The events of one kind delivered to an execution, in order.
Events(e, kind) == SelectSeq(e.events, LAMBDA ev : ev.kind = kind)

\* The trace, the status and the variables of the two runs are the same.
SameOutcome(x, y) ==
    /\ executions[x].trace = executions[y].trace
    /\ executions[x].status = executions[y].status
    /\ executions[x].variables = executions[y].variables

Replied(op) == reply # None /\ reply[1].op = op

\* C26: the status returned for a FAILED execution has the id of the node that
\* failed and its error message, and the status returned for an execution with
\* pending human tasks has their descriptors, not their number.
C26_StatusHasDetails ==
    Replied("get_execution_status") =>
        LET e == executions[reply[1].argument]
            status == reply[1].value
        IN /\ e.status = FAILED =>
                 {"failed_node", "error_message"} \subseteq DOMAIN status
           /\ e.waiting_tasks # EmptyDict =>
                 /\ status.waiting_tasks \notin Nat
                 /\ status.waiting_tasks =
                       { e.waiting_tasks[n] : n \in DOMAIN e.waiting_tasks }

\* The position of the last execution of the node in the trace.
LastVisit(trace, node_id) ==
    CHOOSE i \in 1..Len(trace) :
        /\ trace[i] = node_id
        /\ \A j \in (i + 1)..Len(trace) : trace[j] # node_id

\* The human tasks of the execution that were created and not answered since.
PendingTasks(e) ==
    { n \in DOMAIN Catalog[e.workflow_def] :
        /\ Catalog[e.workflow_def][n].node_type = HUMAN_TASK
        /\ Count(e.trace, n) >
              Len(SelectSeq(e.events, LAMBDA ev : ev.kind = "answer" /\ ev.node_id = n)) }

NewEvent(x) ==
    IF /\ x \in DOMAIN executions
       /\ Len(executions'[x].events) = Len(executions[x].events) + 1
    THEN <<executions'[x].events[Len(executions'[x].events)]>>
    ELSE <<>>

\* The nodes execution x executes in this step, in order.
NewTrace(x) ==
    SubSeq(executions'[x].trace,
           (IF x \in DOMAIN executions THEN Len(executions[x].trace) ELSE 0) + 1,
           Len(executions'[x].trace))

\* The ids of the TIMER nodes of the definitions.
TimerIds ==
    UNION { { n \in DOMAIN Catalog[w] : Catalog[w][n].node_type = TIMER } : w \in DOMAIN Catalog }

\* A call on execution x is suspended in the sleep of the timer.
TimerSleeps(x, node_id) ==
    \E i \in 1..Len(coroutines) :
       /\ coroutines[i].call.execution_id = x
       /\ coroutines[i].awaiting.node_id = node_id

\* The timer of execution x is COMPLETED and each of its successors has been executed.
TimerPassed(x, node_id) ==
    /\ x \in DOMAIN executions
    /\ RecordIs(executions[x], node_id, {COMPLETED})
    /\ \A i \in 1..Len(Catalog[executions[x].workflow_def][node_id].outgoing) :
          Executed(executions[x],
                   Catalog[executions[x].workflow_def][node_id].outgoing[i].node_id)

\* C29: a timer whose sleep has begun ends by itself: the sleep ends only with
\* the timer's own end, in a step in which no call is made from outside, the
\* timer becomes COMPLETED and its successors are executed; that step comes
\* (while a timer sleeps, a moment comes at which none sleeps); no task is ever
\* pending at a timer.
C29_TimerAdvances ==
    /\ [][/\ \A x \in DOMAIN executions' :
             (NewEvent(x) # <<>> /\ NewEvent(x)[1].kind = "timer") =>
                 LET node_id == NewEvent(x)[1].node_id
                     node == Catalog[executions'[x].workflow_def][node_id]
                 IN /\ RecordIs(executions'[x], node_id, {COMPLETED})
                    /\ \A i \in 1..Len(node.outgoing) :
                          \E j \in 1..Len(NewTrace(x)) :
                             NewTrace(x)[j] = node.outgoing[i].node_id
                    /\ returns' \subseteq
                          returns \cup { coroutines[i].call : i \in 1..Len(coroutines) }
          /\ \A x \in DOMAIN executions :
                \A n \in TimerIds :
                   (TimerSleeps(x, n) /\ ~TimerSleeps(x, n)') =>
                       /\ NewEvent(x) # <<>>
                       /\ NewEvent(x)[1].kind = "timer"
                       /\ NewEvent(x)[1].node_id = n]_vars
    /\ [](\A x \in DOMAIN executions :
             \A n \in DOMAIN executions[x].waiting_tasks :
                Catalog[executions[x].workflow_def][n].node_type # TIMER)
    /\ (\E x \in 1..MaxExecutions : \E n \in TimerIds : TimerSleeps(x, n))
          ~> (\A x \in 1..MaxExecutions : \A n \in TimerIds : ~TimerSleeps(x, n))

\* The timer of the fork has ended before anything else was delivered, and
\* the join after it has been executed.
C29_Witness ==
    \E x \in DOMAIN executions :
       /\ executions[x].workflow_def = "fork_timer"
       /\ Len(executions[x].events) = 1
       /\ executions[x].events[1].kind = "timer"
       /\ TimerPassed(x, "wait")

\* C30: in the step in which a service call fails, the service task is not
\* executed again and no call of it is left suspended, its record becomes FAILED
\* with the error message, the variables stay as they were, none of its
\* successors is executed, and the execution's status is FAILED.
C30_FailedServiceStops ==
    [][\A x \in DOMAIN executions' :
          (/\ NewEvent(x) # <<>>
           /\ NewEvent(x)[1].kind = "response"
           /\ ~NewEvent(x)[1].data) =>
              LET node_id == NewEvent(x)[1].node_id
                  node == Catalog[executions'[x].workflow_def][node_id]
                  after == executions'[x]
              IN /\ \A j \in 1..Len(NewTrace(x)) : NewTrace(x)[j] # node_id
                 /\ \A i \in 1..Len(coroutines') :
                       coroutines'[i].call.execution_id = x =>
                          coroutines'[i].awaiting.node_id # node_id
                 /\ after.node_executions[node_id].status = FAILED
                 /\ after.node_executions[node_id].error_message # None
                 /\ after.variables = executions[x].variables
                 /\ \A i \in 1..Len(node.outgoing) :
                       \A j \in 1..Len(NewTrace(x)) :
                          NewTrace(x)[j] # node.outgoing[i].node_id
                 /\ after.status = FAILED]_vars

\* The service call of the chain has failed: the execution is FAILED, the
\* variable of the output mapping is not written, the END node is not executed.
C30_Witness ==
    \E x \in DOMAIN executions :
       /\ executions[x].workflow_def = "chain"
       /\ Len(executions[x].events) = 1
       /\ ~executions[x].events[1].data
       /\ executions[x].status = FAILED
       /\ "process_result" \notin DOMAIN executions[x].variables
       /\ ~Executed(executions[x], "end")

\* ------------------------------------------------- claims C31 to C36

\* C31: an execution has one node record for each node visit: nodes_executed
\* is the number of visits, and the record a visit made stays the node's
\* record when the node is visited again.
C31_RecordPerVisit ==
    \A x \in DOMAIN executions :
       LET e == executions[x]
       IN /\ GetStatus(e).nodes_executed = Len(e.trace)
          /\ \A i \in 1..Len(e.trace) :
                \E n \in DOMAIN e.node_executions :
                   /\ e.node_executions[n].node_id = e.trace[i]
                   /\ e.node_executions[n].visit = i

\* The route of a decision all of whose conditions are read against the one
\* snapshot: the target of the first true condition, or the unconditioned ones.
RouteOf(node, snapshot) ==
    LET true == { i \in 1..Len(node.outgoing) :
                    /\ node.outgoing[i].condition # None
                    /\ node.outgoing[i].condition[1].lhs \in DOMAIN snapshot
                    /\ Compare(node.outgoing[i].condition[1].op,
                               snapshot[node.outgoing[i].condition[1].lhs],
                               node.outgoing[i].condition[1].rhs) }
        rest == SelectSeq(node.outgoing, LAMBDA c : c.condition = None)
    IN IF true # {}
       THEN <<node.outgoing[CHOOSE k \in true : \A j \in true : k <= j].node_id>>
       ELSE [i \in 1..Len(rest) |-> rest[i].node_id]

\* C32: every visit of a decision takes the route that one snapshot of the
\* variables gives, the values the execution has when the step that executes the
\* decision ends, whatever complete_task wrote while the run that reaches the
\* decision was suspended: the nodes executed right after the decision are the
\* route of that snapshot.
C32_OneSnapshot ==
    [][\A x \in DOMAIN executions' :
          \A j \in 1..Len(NewTrace(x)) :
             LET def == Catalog[executions'[x].workflow_def]
                 node == def[NewTrace(x)[j]]
                 route == RouteOf(node, executions'[x].variables)
             IN node.node_type = DECISION =>
                   /\ j + Len(route) <= Len(NewTrace(x))
                   /\ Len(route) > 0 => NewTrace(x)[j + 1] = route[1]
                   /\ Len(route) = 0 => j = Len(NewTrace(x))]_vars

\* The run was started with score 650, the manager's answer wrote score 720
\* while the run slept in B, and the decision after B went to end, the route
\* of 720, not to audit, the route of 650.
C32_Witness ==
    \E x \in DOMAIN executions :
       /\ executions[x].workflow_def = "fork_decide"
       /\ \E c \in returns :
             /\ c.op = "start_workflow" /\ c.execution_id = x
             /\ c.data = [score |-> 650]
       /\ Len(executions[x].events) = 2
       /\ executions[x].events[1].kind = "answer"
       /\ executions[x].events[2].kind = "response"
       /\ executions[x].events[2].data
       /\ executions[x].variables["score"] = 720
       /\ executions[x].trace = <<"start", "fork", "manual_review", "B", "end",
                                  "credit_decision", "end">>

\* The executions whose status, variables, node records or waiting tasks the
\* step writes, the execution it creates included.
Written ==
    { x \in DOMAIN executions' :
         \/ x \notin DOMAIN executions
         \/ executions'[x].status # executions[x].status
         \/ executions'[x].variables # executions[x].variables
         \/ executions'[x].node_executions # executions[x].node_executions
         \/ executions'[x].waiting_tasks # executions[x].waiting_tasks }

\* C33: isolation.  A step of start_workflow creating execution X, of
\* complete_task on X, or of X's run resumed after an await writes the status,
\* variables, node records and waiting tasks of X alone: those of every other
\* execution are what they were, also when the executions run the same
\* definition and their steps interleave, and no step removes an execution.
C33_Isolated ==
    [][/\ DOMAIN executions \subseteq DOMAIN executions'
       /\ \A c \in NewCalls : Written \subseteq {c.execution_id}
       /\ \A x \in DOMAIN executions : NewEvent(x) # <<>> => Written \subseteq {x}
       /\ \A x, y \in Written : x = y]_vars

\* Execution 2 of "review" was started while execution 1 of the same
\* definition waited at manual_review, and was answered to its end; execution 1
\* still waits with the variables it was started with.
C33_Witness ==
    /\ DOMAIN executions = {1, 2}
    /\ executions[1].workflow_def = "review" /\ executions[2].workflow_def = "review"
    /\ executions[1].events = <<>>
    /\ DOMAIN executions[1].waiting_tasks = {"manual_review"}
    /\ "approved" \notin DOMAIN executions[1].variables
    /\ Len(executions[2].events) = 1
    /\ executions[2].events[1].kind = "answer"
    /\ executions[2].status = COMPLETED
    /\ "approved" \in DOMAIN executions[2].variables

\* C34: in every reachable state the keys of an execution's waiting_tasks are
\* exactly the node ids whose node record has status WAITING, and every such
\* node is a human task whose stored task descriptor carries that node id and
\* the execution's id.
C34_WaitingTasksAreWaitingRecords ==
    \A x \in DOMAIN executions :
       LET e == executions[x]
       IN /\ DOMAIN e.waiting_tasks =
                { n \in DOMAIN e.node_executions : e.node_executions[n].status = WAITING }
          /\ \A n \in DOMAIN e.waiting_tasks :
                /\ n \in DOMAIN Nodes(e)
                /\ Nodes(e)[n].node_type = HUMAN_TASK
                /\ e.waiting_tasks[n].node_id = n
                /\ e.waiting_tasks[n].execution_id = e.execution_id

\* The audit of the later "review" is pending after the manager answered: audit
\* has a WAITING record and a descriptor, manual_review a COMPLETED record and
\* none.
C34_Witness ==
    \E x \in DOMAIN executions :
       LET e == executions[x]
       IN /\ e.workflow_def = "review_v2"
          /\ DOMAIN e.waiting_tasks = {"audit"}
          /\ e.waiting_tasks["audit"].execution_id = x
          /\ e.node_executions["audit"].status = WAITING
          /\ "manual_review" \in DOMAIN e.node_executions
          /\ e.node_executions["manual_review"].status = COMPLETED

\* C35: in every reachable state of an execution completed_at is set if and
\* only if the status is COMPLETED: a run whose status is FAILED or RUNNING
\* never carries a completion time.
C35_CompletedAtIffCompleted ==
    \A x \in DOMAIN executions :
       (executions[x].completed_at # None) <=> (executions[x].status = COMPLETED)

\* No node of the definition is reached from its own successors.
Acyclic(workflow_def) ==
    \A n \in DOMAIN workflow_def :
       n \notin ReachFrom(workflow_def, {}, Targets(workflow_def[n]))

\* The number of paths of connections from one node to another in an acyclic
\* definition (the empty path from a node to itself included).
RECURSIVE PathCount(_, _, _)
RECURSIVE PathsVia(_, _, _)
PathCount(workflow_def, from, to) ==
    IF from = to THEN 1
    ELSE IF from \notin DOMAIN workflow_def THEN 0
    ELSE PathsVia(workflow_def, NextNodes(workflow_def[from]), to)

PathsVia(workflow_def, next_nodes, to) ==
    IF next_nodes = <<>> THEN 0
    ELSE PathCount(workflow_def, Head(next_nodes), to)
            + PathsVia(workflow_def, Tail(next_nodes), to)

\* The definitions without a cycle, and for each of them the number of paths
\* between any two of its nodes.
AcyclicDefs == { w \in DOMAIN Catalog : Acyclic(Catalog[w]) }

Paths ==
    [w \in AcyclicDefs |->
        [from \in DOMAIN Catalog[w] |->
            [to \in DOMAIN Catalog[w] |-> PathCount(Catalog[w], from, to)]]]

\* The node a call starts from: the START node for start_workflow, the
\* answered task for complete_task.
Origin(c, workflow_def) ==
    IF c.op = "start_workflow" THEN StartNodeOf(workflow_def) ELSE c.node_id

\* The calls that run in the step: those made in it and the suspended one
\* whose await ends in it.
Running ==
    NewCalls \cup
    { coroutines[i].call : i \in { j \in 1..Len(coroutines) :
         LET c == coroutines[j]
         IN /\ NewEvent(c.call.execution_id) # <<>>
            /\ NewEvent(c.call.execution_id)[1].kind # "answer"
            /\ NewEvent(c.call.execution_id)[1].node_id = c.awaiting.node_id } }

\* C36: termination.  In a run of an acyclic definition every start_workflow
\* and complete_task call returns after finitely many node executions: a node
\* is executed at most once per path that leads to it from the START node in
\* the whole run, and at most once per path from the START node or the
\* answered task in any stretch of the call that started there; and every call
\* that is suspended at an await returns (while a call is suspended, a moment
\* comes at which none is).
C36_CallsReturn ==
    /\ [](\A x \in DOMAIN executions :
             LET e == executions[x]
             IN e.workflow_def \in AcyclicDefs =>
                   \A n \in DOMAIN Nodes(e) :
                      Count(e.trace, n)
                         <= Paths[e.workflow_def][StartNodeOf(Nodes(e))][n])
    /\ [][\A c \in Running :
             LET e == executions'[c.execution_id]
             IN e.workflow_def \in AcyclicDefs =>
                   \A n \in DOMAIN Nodes(e) :
                      Count(NewTrace(c.execution_id), n)
                         <= Paths[e.workflow_def][Origin(c, Nodes(e))][n]]_vars
    /\ (coroutines # <<>>) ~> (coroutines = <<>>)

\* Both branches of the fork have run to the END node, every node once per
\* path to it (join and end twice), and the start call has returned.
C36_Witness ==
    \E x \in DOMAIN executions :
       LET e == executions[x]
       IN /\ e.workflow_def = "fork_join"
          /\ e.workflow_def \in AcyclicDefs
          /\ Started(x)
          /\ coroutines = <<>>
          /\ Count(e.trace, "end") = 2
          /\ Paths["fork_join"]["start"]["end"] = 2
          /\ Len(e.trace) = 8

====
